---- MODULE Spec2Model ----
(***************************************************************************)
(* treefmt-pre-commit: the binary acquisition and cache protocol of        *)
(* src/treefmt_pre_commit/__main__.py (download_treefmt and its helpers).  *)
(*                                                                         *)
(* Every element of Procs is one OS process that calls download_treefmt    *)
(* once against the same cache directory.  A process step is one           *)
(* filesystem or network operation of the code together with the local     *)
(* computation that follows it; processes interleave in any order, so a    *)
(* call made "after" another one is the interleaving in which its first    *)
(* step follows the other's last.  A process may be killed at any point    *)
(* (Crash): the files it created stay as they are.                         *)
(***************************************************************************)
EXTENDS Integers, FiniteSets, Sequences, TLC

\* ---- bounds of the model ------------------------------------------------
NumProcs == 3
\* number of processes that may be killed in one execution
MaxCrashes == 1
\* seconds by which the clock reading of a waiting process advances over one
\* time.sleep (the sleep returns after at least its interval, never before)
SleepGrain == 30

\* ---- program constants --------------------------------------------------
LOCK_TIMEOUT == 60

Procs == 1..NumProcs

\* the host introspection results platform.system().lower(),
\* platform.machine().lower() the model draws from
Hosts == { <<"linux", "x86_64">>, <<"plan9", "mips">> }

\* the raw introspection results platform.system(), platform.machine() that
\* the platform resolution is checked over
RawSystems == {"Darwin", "Linux", "Plan9"}
RawMachines == {"arm64", "aarch64", "x86_64", "AMD64", "mips"}
PlatformHosts == RawSystems \X RawMachines

\* str.lower on the strings above
Lower(str) ==
    CASE str = "Darwin" -> "darwin"
      [] str = "Linux" -> "linux"
      [] str = "Plan9" -> "plan9"
      [] str = "AMD64" -> "amd64"
      [] OTHER -> str

\* ---- error messages raised by the code ----------------------------------
ErrNone        == "none"
ErrPlatform    == "Unsupported platform"
ErrDownload    == "Failed to download treefmt"
ErrExtract     == "Failed to extract treefmt"
ErrLockTimeout == "Timeout waiting for lock"
ErrReacquire   == "Failed to acquire lock after waiting"

\* ---- files --------------------------------------------------------------
\* a file of the cache directory: absent, or present with the bytes written
\* so far ("empty", "partial", "complete") and its executable bit
NoFile == [exists |-> FALSE, content |-> "none", exec |-> FALSE]
File(c, x) == [exists |-> TRUE, content |-> c, exec |-> x]

VARIABLES
    pc,          \* pc[p]: the statement process p executes next
    host,        \* <<system, machine>> of the machine all processes run on
    cacheDir,    \* the cache directory exists
    lock,        \* the file .treefmt.lock exists
    binary,      \* the file at binary_path
    staging,     \* staging[p]: the file .treefmt.tmp.<pid of p>
    data,        \* data[p]: the archive bytes urlopen returned to p
    elapsed,     \* elapsed[p]: time.time() - start_time in wait_for_lock
    pending,     \* pending[p]: the return/raise suspended while finally runs
    err,         \* err[p]: the message of the exception the call raised
    via,         \* via[p]: the return statement the call returned through
    lockOps,     \* lockOps[p]: "none", "acquired" (acquire_lock returned True), "released"
    fetchCount,  \* number of urlopen calls made so far
    fetched,     \* fetched[p]: p has called urlopen
    renameCount, \* number of successful renames onto binary_path so far
    crashes,     \* number of processes killed so far
    phase,       \* phase[p]: the phase of the call in which its exception arose
    mainState    \* mainState[p]: main is in the call ("call"), has replaced the
                 \* process image ("exec") or has exited with status 1 ("exit1")

vars == << pc, host, cacheDir, lock, binary, staging, data, elapsed, pending,
           err, phase, via, lockOps, fetchCount, fetched, renameCount, crashes, mainState >>

Terminal == {"Ready", "Failed"}
\* statements between a successful acquire_lock and release_lock
HoldingPCs == {"Recheck", "Platform", "Fetch", "Fetching", "Extract", "Open",
               "Write", "WriteRest", "Chmod", "Rename", "Except", "Release"}

Holds(p) == pc[p] \in HoldingPCs

InitOn(hosts) ==
    /\ pc = [p \in Procs |-> "Check"]
    /\ host \in hosts
    /\ cacheDir = FALSE
    /\ lock = FALSE
    /\ binary = NoFile
    /\ staging = [p \in Procs |-> NoFile]
    /\ data = [p \in Procs |-> "none"]
    /\ elapsed = [p \in Procs |-> 0]
    /\ pending = [p \in Procs |-> "none"]
    /\ err = [p \in Procs |-> ErrNone]
    /\ via = [p \in Procs |-> "none"]
    /\ lockOps = [p \in Procs |-> "none"]
    /\ fetchCount = 0
    /\ fetched = [p \in Procs |-> FALSE]
    /\ renameCount = 0
    /\ crashes = 0
    /\ phase = [p \in Procs |-> "none"]
    /\ mainState = [p \in Procs |-> "call"]

Init == InitOn(Hosts)
\* the same start on every host of the platform resolution's input domain
InitPlatform == InitOn(PlatformHosts)

\* ---- helpers ------------------------------------------------------------
\* get_platform_info: the pair returned, or "unsupported" when it raises
get_platform_info(rawSystem, rawMachine) ==
    LET system == Lower(rawSystem)
        machine == Lower(rawMachine)
    IN  IF system = "darwin"
        THEN IF machine = "arm64" THEN <<"darwin", "arm64">> ELSE <<"darwin", "amd64">>
        ELSE IF system = "linux" /\ machine = "aarch64" THEN <<"linux", "arm64">>
        ELSE IF system = "linux" /\ machine \in {"x86_64", "amd64"} THEN <<"linux", "amd64">>
        ELSE <<"unsupported", "unsupported">>

\* acquire_lock's result: os.open with O_CREAT | O_EXCL succeeds iff the file
\* does not exist; in both cases the file exists afterwards
acquire_lock_NoExcl == TRUE
acquire_lock == ~lock

\* the phase of the call a statement belongs to
PhaseOf(l) ==
    CASE l = "Wait" -> "lockwait"
      [] l = "Reacquire" -> "reacquire"
      [] l = "Platform" -> "platform"
      [] l = "Fetching" -> "download"
      [] l = "Extract" -> "extract"
      [] l \in {"Open", "Write", "WriteRest", "Chmod", "Rename"} -> "install"
      [] OTHER -> "none"

\* raise the exception msg out of download_treefmt from outside the try block
Raise(p, msg) ==
    /\ pc' = [pc EXCEPT ![p] = "Failed"]
    /\ err' = [err EXCEPT ![p] = msg]
    /\ phase' = [phase EXCEPT ![p] = PhaseOf(pc[p])]

\* raise msg inside the try block: the finally clause runs first
RaiseInTry(p, msg) ==
    /\ pc' = [pc EXCEPT ![p] = "Release"]
    /\ pending' = [pending EXCEPT ![p] = "Failed"]
    /\ err' = [err EXCEPT ![p] = msg]
    /\ phase' = [phase EXCEPT ![p] = IF pc[p] = "Except" THEN @ ELSE PhaseOf(pc[p])]

\* an exception inside the inner try (lines 127-141): go to its handler
ToExcept(p) ==
    /\ pc' = [pc EXCEPT ![p] = "Except"]
    /\ phase' = [phase EXCEPT ![p] = PhaseOf(pc[p])]

Goto(p, l) == pc' = [pc EXCEPT ![p] = l]

\* ---- download_treefmt, statement by statement ---------------------------
\* lines 88-92: the quick check without the lock, then cache_dir.mkdir
Check_NoFastPath(p) ==
    /\ pc[p] = "Check"
    /\ cacheDir' = TRUE
    /\ Goto(p, "Acquire")
    /\ UNCHANGED << host, lock, binary, staging, data, elapsed, pending,
                    err, phase, via, lockOps, fetchCount, fetched, renameCount, crashes, mainState >>
Check(p) ==
    /\ pc[p] = "Check"
    /\ IF binary.exists
       THEN /\ Goto(p, "Ready")
            /\ via' = [via EXCEPT ![p] = "fast"]
            /\ UNCHANGED cacheDir
       ELSE /\ cacheDir' = TRUE
            /\ Goto(p, "Acquire")
            /\ UNCHANGED via
    /\ UNCHANGED << host, lock, binary, staging, data, elapsed, pending,
                    err, phase, lockOps, fetchCount, fetched, renameCount, crashes, mainState >>

\* line 95: the first acquire_lock; on failure wait_for_lock reads start_time
Acquire(p) ==
    /\ pc[p] = "Acquire"
    /\ lock' = TRUE
    /\ IF acquire_lock
       THEN /\ Goto(p, "Recheck")
            /\ lockOps' = [lockOps EXCEPT ![p] = "acquired"]
       ELSE /\ Goto(p, "Wait")
            /\ UNCHANGED lockOps
    /\ UNCHANGED << host, cacheDir, binary, staging, data, elapsed, pending,
                    err, phase, via, fetchCount, fetched, renameCount, crashes, mainState >>

\* lines 75-78: one iteration of the loop of wait_for_lock: the test of the
\* lock file, the comparison of the clock with the timeout, the sleep.  The
\* clock reading is a local of wait_for_lock and is dropped when it returns.
WaitPoll_NoTimeout(p) ==
    /\ pc[p] = "Wait"
    /\ IF lock
       THEN UNCHANGED << pc, err, phase, elapsed >>
       ELSE /\ Goto(p, "WaitCheck")
            /\ elapsed' = [elapsed EXCEPT ![p] = 0]
            /\ UNCHANGED << err, phase >>
    /\ UNCHANGED << host, cacheDir, lock, binary, staging, data, pending,
                    via, lockOps, fetchCount, fetched, renameCount, crashes, mainState >>
WaitPoll_StealLock(p) ==
    /\ pc[p] = "Wait"
    /\ IF lock /\ elapsed[p] <= LOCK_TIMEOUT
       THEN /\ elapsed' = [elapsed EXCEPT ![p] = @ + SleepGrain]
            /\ UNCHANGED << pc, lock >>
       ELSE /\ Goto(p, "WaitCheck")
            /\ elapsed' = [elapsed EXCEPT ![p] = 0]
            /\ lock' = FALSE
    /\ UNCHANGED << host, cacheDir, binary, staging, data, pending, err, phase,
                    via, lockOps, fetchCount, fetched, renameCount, crashes, mainState >>
WaitPoll(p) ==
    /\ pc[p] = "Wait"
    /\ IF lock
       THEN IF elapsed[p] > LOCK_TIMEOUT
            THEN Raise(p, ErrLockTimeout) /\ UNCHANGED elapsed
            ELSE /\ elapsed' = [elapsed EXCEPT ![p] = @ + SleepGrain]
                 /\ UNCHANGED << pc, err, phase >>
       ELSE /\ Goto(p, "WaitCheck")
            /\ elapsed' = [elapsed EXCEPT ![p] = 0]
            /\ UNCHANGED << err, phase >>
    /\ UNCHANGED << host, cacheDir, lock, binary, staging, data, pending,
                    via, lockOps, fetchCount, fetched, renameCount, crashes, mainState >>

\* lines 99-100: after the lock was seen absent, the binary should exist
WaitCheck_NoTest(p) ==
    /\ pc[p] = "WaitCheck"
    /\ Goto(p, "Reacquire")
    /\ UNCHANGED << host, cacheDir, lock, binary, staging, data, elapsed, pending,
                    err, phase, via, lockOps, fetchCount, fetched, renameCount, crashes, mainState >>
WaitCheck(p) ==
    /\ pc[p] = "WaitCheck"
    /\ IF binary.exists
       THEN /\ Goto(p, "Ready")
            /\ via' = [via EXCEPT ![p] = "wait"]
       ELSE /\ Goto(p, "Reacquire")
            /\ UNCHANGED via
    /\ UNCHANGED << host, cacheDir, lock, binary, staging, data, elapsed, pending,
                    err, phase, lockOps, fetchCount, fetched, renameCount, crashes, mainState >>

\* lines 102-103: the second acquire_lock
Reacquire_WaitAgain(p) ==
    /\ pc[p] = "Reacquire"
    /\ lock' = TRUE
    /\ IF acquire_lock
       THEN /\ Goto(p, "Recheck")
            /\ lockOps' = [lockOps EXCEPT ![p] = "acquired"]
       ELSE /\ Goto(p, "Wait")
            /\ UNCHANGED lockOps
    /\ UNCHANGED << host, cacheDir, binary, staging, data, elapsed, pending,
                    err, phase, via, fetchCount, fetched, renameCount, crashes, mainState >>
Reacquire(p) ==
    /\ pc[p] = "Reacquire"
    /\ lock' = TRUE
    /\ IF acquire_lock
       THEN /\ Goto(p, "Recheck")
            /\ lockOps' = [lockOps EXCEPT ![p] = "acquired"]
            /\ UNCHANGED << err, phase >>
       ELSE /\ Raise(p, ErrReacquire)
            /\ UNCHANGED lockOps
    /\ UNCHANGED << host, cacheDir, binary, staging, data, elapsed, pending,
                    via, fetchCount, fetched, renameCount, crashes, mainState >>

\* lines 107-108: the double check under the lock
Recheck_Skip(p) ==
    /\ pc[p] = "Recheck"
    /\ Goto(p, "Platform")
    /\ UNCHANGED << host, cacheDir, lock, binary, staging, data, elapsed, pending,
                    err, phase, via, lockOps, fetchCount, fetched, renameCount, crashes, mainState >>
Recheck(p) ==
    /\ pc[p] = "Recheck"
    /\ IF binary.exists
       THEN /\ Goto(p, "Release")
            /\ pending' = [pending EXCEPT ![p] = "Ready"]
            /\ via' = [via EXCEPT ![p] = "recheck"]
       ELSE /\ Goto(p, "Platform")
            /\ UNCHANGED << pending, via >>
    /\ UNCHANGED << host, cacheDir, lock, binary, staging, data, elapsed,
                    err, phase, lockOps, fetchCount, fetched, renameCount, crashes, mainState >>

\* line 111: system, arch = get_platform_info()
Platform(p) ==
    /\ pc[p] = "Platform"
    /\ IF get_platform_info(host[1], host[2]) = <<"unsupported", "unsupported">>
       THEN RaiseInTry(p, ErrPlatform)
       ELSE Goto(p, "Fetch") /\ UNCHANGED << pending, err, phase >>
    /\ UNCHANGED << host, cacheDir, lock, binary, staging, data, elapsed,
                    via, lockOps, fetchCount, fetched, renameCount, crashes, mainState >>

\* line 118: urlopen(url, timeout=30) is called
Fetch(p) ==
    /\ pc[p] = "Fetch"
    /\ fetchCount' = fetchCount + 1
    /\ fetched' = [fetched EXCEPT ![p] = TRUE]
    /\ Goto(p, "Fetching")
    /\ UNCHANGED << host, cacheDir, lock, binary, staging, data, elapsed, pending,
                    err, phase, via, lockOps, renameCount, crashes, mainState >>

\* lines 118-123: the request ends: a transport error or a status other than
\* 200 (re-raised as the download failure), or the body of the response, which
\* is an archive with the member "treefmt" or one without it
FetchDone(p) ==
    /\ pc[p] = "Fetching"
    /\ \E r \in {"error", "good", "nomember"} :
         IF r = "error"
         THEN RaiseInTry(p, ErrDownload) /\ UNCHANGED data
         ELSE /\ Goto(p, "Extract")
              /\ data' = [data EXCEPT ![p] = r]
              /\ UNCHANGED << pending, err, phase >>
    /\ UNCHANGED << host, cacheDir, lock, binary, staging, elapsed,
                    via, lockOps, fetchCount, fetched, renameCount, crashes, mainState >>

\* lines 128-132: tarfile.open, tar.getmember("treefmt"), tar.extractfile
Extract(p) ==
    /\ pc[p] = "Extract"
    /\ IF data[p] = "good"
       THEN Goto(p, "Open") /\ UNCHANGED phase
       ELSE ToExcept(p)
    /\ UNCHANGED << host, cacheDir, lock, binary, staging, data, elapsed, pending,
                    err, via, lockOps, fetchCount, fetched, renameCount, crashes, mainState >>

\* line 135: open(temp_path, "wb") creates or truncates the staging file
Open(p) ==
    /\ pc[p] = "Open"
    /\ \E ok \in BOOLEAN :
         IF ok
         THEN /\ staging' = [staging EXCEPT ![p] = File("empty", FALSE)]
              /\ Goto(p, "Write")
              /\ UNCHANGED phase
         ELSE /\ ToExcept(p)
              /\ UNCHANGED staging
    /\ UNCHANGED << host, cacheDir, lock, binary, data, elapsed, pending,
                    err, via, lockOps, fetchCount, fetched, renameCount, crashes, mainState >>

\* line 136: out.write(f.read()), the first bytes reach the file
Write(p) ==
    /\ pc[p] = "Write"
    /\ \E ok \in BOOLEAN :
         IF ok
         THEN /\ staging' = [staging EXCEPT ![p].content = "partial"]
              /\ Goto(p, "WriteRest")
              /\ UNCHANGED phase
         ELSE /\ ToExcept(p)
              /\ UNCHANGED staging
    /\ UNCHANGED << host, cacheDir, lock, binary, data, elapsed, pending,
                    err, via, lockOps, fetchCount, fetched, renameCount, crashes, mainState >>

\* line 136 and the close of line 135: the remaining bytes reach the file
WriteRest(p) ==
    /\ pc[p] = "WriteRest"
    /\ \E ok \in BOOLEAN :
         IF ok
         THEN /\ staging' = [staging EXCEPT ![p].content = "complete"]
              /\ Goto(p, "Chmod")
              /\ UNCHANGED phase
         ELSE /\ ToExcept(p)
              /\ UNCHANGED staging
    /\ UNCHANGED << host, cacheDir, lock, binary, data, elapsed, pending,
                    err, via, lockOps, fetchCount, fetched, renameCount, crashes, mainState >>

\* line 138: os.chmod(temp_path, 0o755)
Chmod_NoExec(p) ==
    /\ pc[p] = "Chmod"
    /\ Goto(p, "Rename")
    /\ UNCHANGED << host, cacheDir, lock, binary, staging, data, elapsed, pending,
                    err, phase, via, lockOps, fetchCount, fetched, renameCount, crashes, mainState >>
Chmod(p) ==
    /\ pc[p] = "Chmod"
    /\ \E ok \in BOOLEAN :
         IF ok
         THEN /\ staging' = [staging EXCEPT ![p].exec = TRUE]
              /\ Goto(p, "Rename")
              /\ UNCHANGED phase
         ELSE /\ ToExcept(p)
              /\ UNCHANGED staging
    /\ UNCHANGED << host, cacheDir, lock, binary, data, elapsed, pending,
                    err, via, lockOps, fetchCount, fetched, renameCount, crashes, mainState >>

\* lines 141, 148-149: temp_path.rename(binary_path), then return binary_path
Rename(p) ==
    /\ pc[p] = "Rename"
    /\ \E ok \in BOOLEAN :
         IF ok
         THEN /\ binary' = staging[p]
              /\ staging' = [staging EXCEPT ![p] = NoFile]
              /\ renameCount' = renameCount + 1
              /\ Goto(p, "Release")
              /\ pending' = [pending EXCEPT ![p] = "Ready"]
              /\ via' = [via EXCEPT ![p] = "install"]
              /\ UNCHANGED phase
         ELSE /\ ToExcept(p)
              /\ UNCHANGED << binary, staging, renameCount, pending, via >>
    /\ UNCHANGED << host, cacheDir, lock, data, elapsed,
                    err, lockOps, fetchCount, fetched, crashes, mainState >>

\* lines 142-146: the handler of the inner try
Except_KeepTemp(p) ==
    /\ pc[p] = "Except"
    /\ RaiseInTry(p, ErrExtract)
    /\ UNCHANGED << host, cacheDir, lock, binary, staging, data, elapsed,
                    via, lockOps, fetchCount, fetched, renameCount, crashes, mainState >>
Except(p) ==
    /\ pc[p] = "Except"
    /\ staging' = [staging EXCEPT ![p] = NoFile]
    /\ RaiseInTry(p, ErrExtract)
    /\ UNCHANGED << host, cacheDir, lock, binary, data, elapsed,
                    via, lockOps, fetchCount, fetched, renameCount, crashes, mainState >>

\* lines 150-152: finally: release_lock(lock_path), then the suspended return
\* or raise completes and the locals of the call are gone
Release_NoUnlink(p) ==
    /\ pc[p] = "Release"
    /\ Goto(p, pending[p])
    /\ pending' = [pending EXCEPT ![p] = "none"]
    /\ data' = [data EXCEPT ![p] = "none"]
    /\ UNCHANGED << host, cacheDir, lock, binary, staging, elapsed,
                    err, phase, via, lockOps, fetchCount, fetched, renameCount, crashes, mainState >>
Release(p) ==
    /\ pc[p] = "Release"
    /\ lock' = FALSE
    /\ lockOps' = [lockOps EXCEPT ![p] = "released"]
    /\ Goto(p, pending[p])
    /\ pending' = [pending EXCEPT ![p] = "none"]
    /\ data' = [data EXCEPT ![p] = "none"]
    /\ UNCHANGED << host, cacheDir, binary, staging, elapsed,
                    err, phase, via, fetchCount, fetched, renameCount, crashes, mainState >>

\* the process is killed: its memory is gone, the files it created stay
Crash(p) ==
    /\ pc[p] \notin Terminal \cup {"Crashed"}
    /\ crashes < MaxCrashes
    /\ crashes' = crashes + 1
    /\ Goto(p, "Crashed")
    /\ pending' = [pending EXCEPT ![p] = "none"]
    /\ data' = [data EXCEPT ![p] = "none"]
    /\ elapsed' = [elapsed EXCEPT ![p] = 0]
    /\ err' = [err EXCEPT ![p] = ErrNone]
    /\ phase' = [phase EXCEPT ![p] = "none"]
    /\ UNCHANGED << host, cacheDir, lock, binary, staging,
                    via, lockOps, fetchCount, fetched, renameCount, mainState >>

\* ---- main ---------------------------------------------------------------
\* line 164: download_treefmt returned: os.execv(binary_path, ...)
Exec_Always(p) ==
    /\ pc[p] \in Terminal
    /\ mainState[p] = "call"
    /\ mainState' = [mainState EXCEPT ![p] = "exec"]
    /\ UNCHANGED << pc, host, cacheDir, lock, binary, staging, data, elapsed, pending,
                    err, phase, via, lockOps, fetchCount, fetched, renameCount, crashes >>
Exec(p) ==
    /\ pc[p] = "Ready"
    /\ mainState[p] = "call"
    /\ mainState' = [mainState EXCEPT ![p] = "exec"]
    /\ UNCHANGED << pc, host, cacheDir, lock, binary, staging, data, elapsed, pending,
                    err, phase, via, lockOps, fetchCount, fetched, renameCount, crashes >>

\* lines 159-161: download_treefmt raised: print the error, sys.exit(1)
ExitOnError(p) ==
    /\ pc[p] = "Failed"
    /\ mainState[p] = "call"
    /\ mainState' = [mainState EXCEPT ![p] = "exit1"]
    /\ UNCHANGED << pc, host, cacheDir, lock, binary, staging, data, elapsed, pending,
                    err, phase, via, lockOps, fetchCount, fetched, renameCount, crashes >>

Next ==
    \E p \in Procs :
        \/ Check(p)
        \/ Acquire(p)
        \/ WaitPoll(p)
        \/ WaitCheck(p)
        \/ Reacquire(p)
        \/ Recheck(p)
        \/ Platform(p)
        \/ Fetch(p)
        \/ FetchDone(p)
        \/ Extract(p)
        \/ Open(p)
        \/ Write(p)
        \/ WriteRest(p)
        \/ Chmod(p)
        \/ Rename(p)
        \/ Except(p)
        \/ Release(p)
        \/ Crash(p)

\* N processes that call download_treefmt
Spec == Init /\ [][Next]_vars

\* N processes that run main: the call and the dispatcher's hand-off
NextMain ==
    \/ Next
    \/ \E p \in Procs :
        \/ Exec(p)
        \/ ExitOnError(p)

SpecMain == Init /\ [][NextMain]_vars

\* the same program started on every host of PlatformHosts
SpecPlatform == InitPlatform /\ [][Next]_vars

\* the steps of process p other than its being killed
ProcStep(p) ==
    \/ Check(p) \/ Acquire(p) \/ WaitPoll(p) \/ WaitCheck(p) \/ Reacquire(p)
    \/ Recheck(p) \/ Platform(p) \/ Fetch(p) \/ FetchDone(p) \/ Extract(p)
    \/ Open(p) \/ Write(p) \/ WriteRest(p) \/ Chmod(p) \/ Rename(p)
    \/ Except(p) \/ Release(p)

\* fair scheduling: a process that is not killed keeps executing (the
\* operating system schedules it, time.sleep returns, and urlopen returns or
\* raises within its timeout)
FairSpec == Spec /\ \A p \in Procs : WF_vars(ProcStep(p))

TypeOK ==
    /\ pc \in [Procs -> {"Check", "Acquire", "Wait", "WaitCheck", "Reacquire",
                         "Crashed"} \cup HoldingPCs \cup Terminal]
    /\ lock \in BOOLEAN
    /\ cacheDir \in BOOLEAN
    /\ fetchCount \in 0..NumProcs
    /\ renameCount \in 0..NumProcs
    /\ crashes \in 0..MaxCrashes

\* ---- properties ---------------------------------------------------------
Supported == get_platform_info(host[1], host[2]) # <<"unsupported", "unsupported">>
HolderErrors == {ErrPlatform, ErrDownload, ErrExtract}
\* p takes a step of its own (every action changes the pc of its process,
\* except the sleeping iteration of wait_for_lock, which changes elapsed)
Steps(p) == pc'[p] # pc[p]

\* C1: mutual exclusion: at most one process at a time is between a successful
\* acquire_lock and its release_lock, and a process enters that region only by
\* the one step that finds the lock file absent and creates it.
C1_MutualExclusion ==
    /\ [](Cardinality({p \in Procs : Holds(p)}) <= 1)
    /\ [][\A p \in Procs : (~Holds(p) /\ Holds(p)') =>
             (pc[p] \in {"Acquire", "Reacquire"} /\ ~lock /\ lock')]_vars
C1_Witness == \E p, q \in Procs : Holds(p) /\ pc[q] = "Wait" /\ lock

\* C2: present implies complete: a file at binary_path always holds the
\* complete bytes and is executable; the path goes from absent to present only
\* by the rename of a completely written, executable staging file, and nothing
\* else ever changes the file at that path.
C2_PresentImpliesComplete ==
    /\ [](binary.exists => (binary.content = "complete" /\ binary.exec))
    /\ [][binary' # binary =>
             /\ ~binary.exists
             /\ \E p \in Procs : /\ pc[p] = "Rename"
                                 /\ staging[p] = File("complete", TRUE)
                                 /\ binary' = staging[p]
                                 /\ ~staging'[p].exists]_vars
C2_Witness ==
    \E p \in Procs : pc[p] = "Release" /\ via[p] = "install" /\ binary.exists

C4_LosersNeverFail ==
    Supported => \A p \in Procs : pc[p] = "Failed" => fetched[p]
\* C4 (amended): a caller that did not fetch terminates in Failed only with
\* the lock-timeout error, with the unsupported-platform error, or with the
\* failed-re-acquire error after a lock holder has failed; and every caller
\* in Ready finds the complete artifact at the path it returns.
C4_LosersObserveWinner ==
    /\ \A p \in Procs : (pc[p] = "Failed" /\ ~fetched[p]) =>
          \/ err[p] \in {ErrLockTimeout, ErrPlatform}
          \/ /\ err[p] = ErrReacquire
             /\ \E q \in Procs \ {p} : pc[q] = "Failed" /\ err[q] \in HolderErrors
    /\ \A p \in Procs : pc[p] = "Ready" =>
          (binary.exists /\ binary.content = "complete")
C4_Witness ==
    \E p, q, r \in Procs :
        /\ pc[p] = "Ready" /\ via[p] = "install"
        /\ pc[q] = "Ready" /\ via[q] = "wait"
        /\ pc[r] = "Ready" /\ via[r] = "recheck"

\* C5 (as claimed): when the lock file was left by a crashed holder, a call
\* that ends with the lock-timeout failure ends no later than LOCK_TIMEOUT
\* after the start of its wait.
C5_TimeoutWithinBound ==
    (\E q \in Procs : pc[q] = "Crashed" /\ lockOps[q] = "acquired") =>
        \A p \in Procs : (pc[p] = "Failed" /\ err[p] = ErrLockTimeout) =>
            elapsed[p] <= LOCK_TIMEOUT

\* C6: warm-cache fast path: a call whose initial check finds the binary
\* returns at once and changes nothing: not the cache directory, the lock
\* file, the binary, any staging file, nor the number of network calls; a call
\* that returned this way never acquired the lock nor fetched.
C6_WarmFastPath ==
    /\ [][\A p \in Procs : (pc[p] = "Check" /\ binary.exists /\ Steps(p)) =>
             /\ pc'[p] \in {"Ready", "Crashed"}
             /\ UNCHANGED << cacheDir, lock, binary, staging, fetchCount,
                             renameCount, lockOps, fetched >>]_vars
    /\ [](\A p \in Procs : via[p] = "fast" =>
             (lockOps[p] = "none" /\ ~fetched[p] /\ ~staging[p].exists))
C6_Witness ==
    \E p, q \in Procs :
        /\ pc[p] = "Ready" /\ via[p] = "fast"
        /\ lock /\ Holds(q)

\* C7: unconditional release: a call that acquired the lock has removed the
\* lock file when it returns or raises, and once every caller has terminated
\* without crashing no lock file remains.
C7_LockReleased ==
    /\ \A p \in Procs : pc[p] \in Terminal => lockOps[p] # "acquired"
    /\ (\A p \in Procs : pc[p] \in Terminal) => ~lock
C7_Witness ==
    /\ \A p \in Procs : pc[p] \in Terminal
    /\ \E p \in Procs : pc[p] = "Failed" /\ err[p] = ErrExtract /\ lockOps[p] = "released"
    /\ \E p \in Procs : pc[p] = "Ready" /\ lockOps[p] = "released"

\* C8: failure cleanup: a call that terminated in Failed has no staging file
\* left and did not make a binary visible; a binary is visible only if some
\* call's rename succeeded.
C8_FailureCleanup ==
    /\ \A p \in Procs : pc[p] = "Failed" =>
          (~staging[p].exists /\ via[p] # "install")
    /\ binary.exists => \E q \in Procs : via[q] = "install" /\ pc[q] # "Failed"
C8_Witness ==
    \E p \in Procs :
        /\ pc[p] = "Failed" /\ err[p] = ErrExtract /\ fetched[p]
        /\ ~binary.exists
        /\ \A q \in Procs : ~staging[q].exists

\* C9: written once: at most one rename onto binary_path ever happens, every
\* rename happens while the path is absent, and a present binary is never
\* deleted, replaced or rewritten.
C9_WrittenOnce ==
    /\ [](renameCount <= 1)
    /\ [][renameCount' # renameCount => ~binary.exists]_vars
    /\ [][binary.exists => binary' = binary]_vars
C9_Witness ==
    /\ renameCount = 1
    /\ \E p, q \in Procs : via[p] = "install" /\ pc[q] = "Ready" /\ via[q] = "recheck"

\* C10 (as claimed): the only terminal failure of a call that never held the
\* lock is the lock-timeout failure.
C10_ContentionOnlyTimesOut ==
    \A p \in Procs : (pc[p] = "Failed" /\ lockOps[p] = "none") =>
        err[p] = ErrLockTimeout
\* C10 (amended): the first acquire_lock that finds the lock file present
\* leads to Waiting; the second one, made after Waiting, terminates the call
\* with the failed-re-acquire error instead of waiting again; a call that never
\* held the lock fails only with the lock-timeout or the failed-re-acquire
\* error.
C10_ContentionOutcomes ==
    /\ [][\A p \in Procs :
             /\ (pc[p] = "Acquire" /\ lock /\ Steps(p)) =>
                    pc'[p] \in {"Wait", "Crashed"}
             /\ (pc[p] = "Reacquire" /\ lock /\ Steps(p)) =>
                    \/ pc'[p] = "Crashed"
                    \/ pc'[p] = "Failed" /\ err'[p] = ErrReacquire]_vars
    /\ [](\A p \in Procs : (pc[p] = "Failed" /\ lockOps[p] = "none") =>
             err[p] \in {ErrLockTimeout, ErrReacquire})
C10_Witness ==
    \E p, q \in Procs :
        /\ pc[p] = "Failed" /\ err[p] = ErrReacquire /\ lockOps[p] = "none"
        /\ Holds(q) /\ lock

\* C11: hand-off ordering: main replaces the process image only after
\* download_treefmt returned in that process, when the binary is present,
\* complete and executable; after a failed call main exits with status 1 and
\* never executes the binary.
C11_HandOffOrdering ==
    /\ [](\A p \in Procs : mainState[p] = "exec" =>
             /\ pc[p] = "Ready"
             /\ binary.exists /\ binary.content = "complete" /\ binary.exec)
    /\ [](\A p \in Procs : mainState[p] = "exit1" =>
             (pc[p] = "Failed" /\ err[p] # ErrNone))
    /\ [][\A p \in Procs : pc[p] # "Ready" => mainState'[p] # "exec"]_vars
C11_Witness ==
    \E p, q \in Procs :
        /\ mainState[p] = "exec" /\ via[p] = "wait"
        /\ mainState[q] = "exit1" /\ err[q] = ErrDownload

\* C12 (as claimed): the platform resolution returns a pair only for a host
\* whose system and machine are both recognized, and raises for every host
\* with an unrecognized system or an unrecognized machine.
RecognizedSystems == {"darwin", "linux"}
RecognizedMachines == {"arm64", "aarch64", "x86_64", "amd64"}
PlatformTags == { <<"darwin", "arm64">>, <<"darwin", "amd64">>,
                  <<"linux", "arm64">>, <<"linux", "amd64">> }
C12_UnrecognizedHostRaises ==
    \A p \in Procs :
        /\ pc[p] = "Fetch" =>
              /\ get_platform_info(host[1], host[2]) \in PlatformTags
              /\ Lower(host[1]) \in RecognizedSystems
              /\ Lower(host[2]) \in RecognizedMachines
        /\ err[p] = ErrPlatform =>
              (Lower(host[1]) \notin RecognizedSystems
                  \/ Lower(host[2]) \notin RecognizedMachines)

\* C13 (as claimed): two calls that failed in different phases among download,
\* extraction, install and lock wait carry different error kinds.
ClassifiedPhases == {"download", "extract", "install", "lockwait"}
C13_DistinctErrorKinds ==
    \A p, q \in Procs :
        (/\ pc[p] = "Failed" /\ pc[q] = "Failed"
         /\ phase[p] \in ClassifiedPhases /\ phase[q] \in ClassifiedPhases
         /\ phase[p] # phase[q]) => err[p] # err[q]

\* C14: re-check under the lock: the first step of a process that acquired
\* the lock is the test of the binary; if it is present the process goes to
\* the release of the lock and on to Ready without a network call or a staging
\* file; a network fetch is only ever started by a process that holds the
\* lock, while the binary is absent.
C14_RecheckUnderLock ==
    /\ [][\A p \in Procs : (lockOps'[p] = "acquired" /\ lockOps[p] # "acquired") =>
             pc'[p] = "Recheck"]_vars
    /\ [][\A p \in Procs : (pc[p] = "Recheck" /\ binary.exists /\ Steps(p)) =>
             /\ pc'[p] \in {"Release", "Crashed"}
             /\ UNCHANGED << fetchCount, fetched, staging, binary, lock >>]_vars
    /\ [](\A p \in Procs : via[p] = "recheck" =>
             /\ ~fetched[p] /\ ~staging[p].exists
             /\ pc[p] = "Ready" => (lockOps[p] = "released"))
    /\ [][\A p \in Procs : (fetched'[p] /\ ~fetched[p]) =>
             (Holds(p) /\ lock /\ lockOps[p] = "acquired" /\ ~binary.exists)]_vars
C14_Witness ==
    \E p, q \in Procs :
        /\ pc[p] = "Release" /\ via[p] = "recheck" /\ lock /\ fetchCount = 1
        /\ pc[q] = "Ready" /\ via[q] = "install"

\* C15: termination: under fair scheduling every call that is not killed
\* eventually reaches Ready or Failed.
C15_Termination == <>(\A p \in Procs : pc[p] \in Terminal \cup {"Crashed"})
C15_Witness ==
    /\ \A p \in Procs : pc[p] \in Terminal \cup {"Crashed"}
    /\ \E p, q \in Procs :
        /\ pc[p] = "Crashed" /\ lockOps[p] = "acquired"
        /\ pc[q] = "Failed" /\ err[q] = ErrLockTimeout

\* C16: the lock file is only removed by the release step of the process
\* that created it; a lock file left by a process killed while holding it
\* stays, no fetch or install happens from then on, and a call that tries to
\* acquire it goes to Waiting and leaves Waiting only with the lock-timeout
\* failure.
CrashedHolder == \E q \in Procs : pc[q] = "Crashed" /\ lockOps[q] = "acquired"
C16_LockRemovedOnlyByCreator ==
    /\ [][(lock /\ ~lock') =>
             \E p \in Procs : /\ pc[p] = "Release" /\ lockOps[p] = "acquired"
                              /\ pc'[p] \in Terminal]_vars
    /\ [](CrashedHolder => lock)
    /\ [][CrashedHolder => UNCHANGED << fetchCount, renameCount, binary >>]_vars
    /\ [][\A p \in Procs : (CrashedHolder /\ pc[p] \in {"Acquire", "Wait"} /\ Steps(p)) =>
             \/ pc'[p] = "Crashed"
             \/ pc[p] = "Acquire" /\ pc'[p] = "Wait"
             \/ pc[p] = "Wait" /\ pc'[p] = "Failed" /\ err'[p] = ErrLockTimeout]_vars
C16_Witness ==
    /\ CrashedHolder /\ lock /\ ~binary.exists
    /\ \A p \in Procs : pc[p] = "Crashed" \/
          (pc[p] = "Failed" /\ err[p] = ErrLockTimeout /\ ~fetched[p])

\* C17: at most one fetch ends in an install, no two fetches are in progress
\* at the same time, and the number of fetches is at most one more than the
\* number of fetching calls that failed and released the lock.
C17_FetchesSerialized ==
    /\ renameCount <= 1
    /\ Cardinality({p \in Procs : fetched[p] /\ Holds(p)}) <= 1
    /\ fetchCount <= 1 + Cardinality({p \in Procs :
            pc[p] = "Failed" /\ fetched[p] /\ lockOps[p] = "released"})
C17_Witness ==
    /\ fetchCount = NumProcs
    /\ renameCount = 1
    /\ Cardinality({p \in Procs : pc[p] = "Failed" /\ fetched[p]}) = NumProcs - 1
====
